---- MODULE Spec2Model ----
(***************************************************************************)
(* A model of the node-pipeline library: ExecutionPlan (an ordered array   *)
(* of handlers plus the operations that mutate it), PipelineHandler (the   *)
(* forward reference _next and the forwarding invoke) and ExecutionContext *)
(* (input, output).                                                        *)
(*                                                                         *)
(* Handler objects are the integers 1..NumHandlers; JavaScript's undefined *)
(* and null are the integers 0 and -1.  Arrays are 0-based in the source   *)
(* and sequences 1-based here: At(hs, i) reads hs the way hs[i] does in    *)
(* JavaScript.                                                             *)
(***************************************************************************)
EXTENDS Integers, Sequences, FiniteSets, TLC

\* The number of PipelineHandler objects the environment has constructed.
NumHandlers == 3

\* JavaScript's undefined: an optional _next that was never set, an array
\* read out of range, an omitted argument.
Undefined == 0

\* JavaScript's null.
Null == -1

Handlers == 1..NumHandlers

\* What a caller can pass where a handler is expected.
HandlerArgs == Handlers \cup {Undefined, Null}

\* The messages of the errors the plan throws.
NoError == "none"
ErrIndex == "Index does not exist in handlers."
ErrNullHandler == "Handler cannot be null or undefined."
ErrNullNewHandler == "New handler cannot be null or undefined."
ErrNotFound == "Handler does not exist in handlers."
ErrDuplicate == "handler is already part of the execution plan."
ErrEmpty == "Pipeline is empty."
ErrContext == "The context parameter is undefined."
ErrType == "TypeError: Cannot read properties of undefined or null"
ErrStack == "Maximum call stack size exceeded"

\* The plans of the model: Spec has the one plan P, SpecTwoPlans has P and Q.
OnePlan == {"P"}
TwoPlans == {"P", "Q"}

\* The inputs execute is called with.
Inputs == {1, 2}

\* The callers of the asynchronous methods: each has at most one call in
\* flight.  Synchronous calls work on the context kept under Sync.
Callers == {"A", "B"}
Sync == "sync"

\* The handler classes: the base PipelineHandler, which only forwards, and a
\* subclass in the manner of the test suite's TestHandler, which writes
\* context.output = context.input + <its suffix> and then calls super.invoke.
Base == "PipelineHandler"
Writer == "TestHandler"
Kinds == {Base, Writer}

VARIABLES
  handlers,   \* ExecutionPlan._handlers, one array per plan
  next,       \* PipelineHandler._next, per handler object
  kind,       \* the class each handler object was constructed from
  last,       \* the call that completed last, with its outcome
  pre,        \* handlers and next as they were when that call began
  invoked,    \* the handlers whose invoke ran during the last execute, in order
  output,     \* what the last execute returned (context.output)
  seen,       \* context.input as it was at each of those invoke calls
  contexts,   \* the context each caller's call works on, per caller
  calls,      \* the asynchronous calls in flight, per caller
  history     \* whether a handler was removed from the plan, and whether a
              \* handler with links was inserted (recorded by ContinueTracking)

vars == <<handlers, next, kind, last, pre, invoked, output, seen, contexts, calls, history>>

----------------------------------------------------------------------------
\* Array primitives, as JavaScript computes them.

\* hs[i] for a 0-based i: undefined out of range.
At(hs, i) ==
  IF 0 <= i /\ i < Len(hs) THEN hs[i + 1] ELSE Undefined

\* hs.indexOf(x): the first 0-based position of x, -1 when there is none.
IndexOf(hs, x) ==
  IF \E i \in 1..Len(hs) : hs[i] = x
    THEN (CHOOSE i \in 1..Len(hs) : hs[i] = x /\ \A j \in 1..(i - 1) : hs[j] # x) - 1
    ELSE -1

\* A variant of SpliceIn that ignores the index and pushes x at the end.
SpliceInAtEnd(hs, index, x) ==
  hs \o <<x>>

\* hs.splice(index, 0, x) for 0 <= index <= hs.length.
SpliceIn(hs, index, x) ==
  SubSeq(hs, 1, index) \o <<x>> \o SubSeq(hs, index + 1, Len(hs))

\* A variant of SpliceOut that ignores the index and pops the last element.
SpliceOutLast(hs, index) ==
  SubSeq(hs, 1, Len(hs) - 1)

\* hs.splice(index, 1) for 0 <= index < hs.length.
SpliceOut(hs, index) ==
  SubSeq(hs, 1, index) \o SubSeq(hs, index + 2, Len(hs))

\* The outcome of a plan method: the array, the links, and the error thrown.
Outcome(hs, nx, err) ==
  [handlers |-> hs, next |-> nx, error |-> err]

\* The nextHandler setter.
SetNextHandler(nx, h, n) ==
  [nx EXCEPT ![h] = n]

----------------------------------------------------------------------------
\* The methods of ExecutionPlan, each as the outcome of one call on the
\* array hs under the links nx.

\* A variant of RemoveHandlerAt whose range check lets index = length pass.
RemoveHandlerAtLenient(hs, nx, index) ==
  IF index < 0 \/ index > Len(hs)
    THEN Outcome(hs, nx, ErrIndex)
    ELSE Outcome(SpliceOut(hs, index), nx, NoError)

\* A variant of RemoveHandlerAt that points the predecessor at the successor
\* of the removed handler.
RemoveHandlerAtRelinking(hs, nx, index) ==
  IF index < 0 \/ index >= Len(hs)
    THEN Outcome(hs, nx, ErrIndex)
    ELSE Outcome(SpliceOut(hs, index),
                 IF index > 0
                   THEN SetNextHandler(nx, At(hs, index - 1), At(hs, index + 1))
                   ELSE nx,
                 NoError)

\* A variant of RemoveHandlerAt that also clears the removed handler's next.
RemoveHandlerAtUnlinking(hs, nx, index) ==
  IF index < 0 \/ index >= Len(hs)
    THEN Outcome(hs, nx, ErrIndex)
    ELSE Outcome(SpliceOut(hs, index), SetNextHandler(nx, At(hs, index), Undefined), NoError)

RemoveHandlerAt(hs, nx, index) ==
  IF index < 0 \/ index >= Len(hs)
    THEN Outcome(hs, nx, ErrIndex)
    ELSE Outcome(SpliceOut(hs, index), nx, NoError)

\* A variant of RemoveHandler without the not-found check: splice(-1, 1)
\* removes the last element.
RemoveHandlerUnchecked(hs, nx, handler) ==
  LET index == IndexOf(hs, handler)
  IN  IF index = -1
        THEN Outcome(SubSeq(hs, 1, Len(hs) - 1), nx, NoError)
        ELSE Outcome(SpliceOut(hs, index), nx, NoError)

RemoveHandler(hs, nx, handler) ==
  LET index == IndexOf(hs, handler)
  IN  IF index = -1
        THEN Outcome(hs, nx, ErrNotFound)
        ELSE Outcome(SpliceOut(hs, index), nx, NoError)

\* A variant of AlreadyInPlan that finds no handler.
AlreadyInPlanNever(hs, handler) ==
  FALSE

\* The duplicate check of insertHandlerAt: this._handlers.indexOf(handler) !== -1.
AlreadyInPlan(hs, handler) ==
  IndexOf(hs, handler) # -1

\* A variant of LinkPredecessor that leaves the predecessor as it is.
LinkPredecessorNever(hs, nx, index, handler) ==
  nx

\* if (index > 0) this._handlers[index - 1].nextHandler = handler
LinkPredecessor(hs, nx, index, handler) ==
  IF index > 0
    THEN SetNextHandler(nx, At(hs, index - 1), handler)
    ELSE nx

\* A variant of LinkSuccessor that links the new handler to the element now
\* at index, the one that follows it after the splice.
LinkSuccessorToOccupant(hs, nx, index, handler) ==
  IF index < Len(hs)
    THEN SetNextHandler(nx, handler, At(hs, index))
    ELSE nx

\* A variant of LinkSuccessor that reads the element before the index
\* instead of the one after it.
LinkSuccessorToPredecessor(hs, nx, index, handler) ==
  IF index < Len(hs)
    THEN SetNextHandler(nx, handler, At(hs, index - 1))
    ELSE nx

\* A variant of LinkSuccessor without the test of the index: at the tail the
\* new handler's next is overwritten with undefined.
LinkSuccessorAlways(hs, nx, index, handler) ==
  SetNextHandler(nx, handler, At(hs, index + 1))

\* if (index < this._handlers.length) handler.nextHandler = this._handlers[index + 1]
\* (read before the splice: the element after the one now at index, and
\* undefined when index is the last position).
LinkSuccessor(hs, nx, index, handler) ==
  IF index < Len(hs)
    THEN SetNextHandler(nx, handler, At(hs, index + 1))
    ELSE nx

\* A variant of InsertHandlerAt that links the predecessor before it checks
\* for a duplicate.
InsertHandlerAtLinksEarly(hs, nx, index, handler) ==
  IF index < 0 \/ index > Len(hs)
    THEN Outcome(hs, nx, ErrIndex)
  ELSE IF handler = Undefined \/ handler = Null
    THEN Outcome(hs, nx, ErrNullHandler)
  ELSE
    LET nx1 == LinkPredecessor(hs, nx, index, handler)
        nx2 == LinkSuccessor(hs, nx1, index, handler)
    IN  IF AlreadyInPlan(hs, handler)
          THEN Outcome(hs, nx1, ErrDuplicate)
          ELSE Outcome(SpliceIn(hs, index, handler), nx2, NoError)

\* A variant of InsertHandlerAt with the range check of removeHandlerAt:
\* the tail position is refused.
InsertHandlerAtStrict(hs, nx, index, handler) ==
  IF index < 0 \/ index >= Len(hs)
    THEN Outcome(hs, nx, ErrIndex)
  ELSE IF handler = Undefined \/ handler = Null
    THEN Outcome(hs, nx, ErrNullHandler)
  ELSE IF AlreadyInPlan(hs, handler)
    THEN Outcome(hs, nx, ErrDuplicate)
  ELSE
    LET nx1 == LinkPredecessor(hs, nx, index, handler)
        nx2 == LinkSuccessor(hs, nx1, index, handler)
    IN  Outcome(SpliceIn(hs, index, handler), nx2, NoError)

InsertHandlerAt(hs, nx, index, handler) ==
  IF index < 0 \/ index > Len(hs)
    THEN Outcome(hs, nx, ErrIndex)
  ELSE IF handler = Undefined \/ handler = Null
    THEN Outcome(hs, nx, ErrNullHandler)
  ELSE IF AlreadyInPlan(hs, handler)
    THEN Outcome(hs, nx, ErrDuplicate)
  ELSE
    LET nx1 == LinkPredecessor(hs, nx, index, handler)
        nx2 == LinkSuccessor(hs, nx1, index, handler)
    IN  Outcome(SpliceIn(hs, index, handler), nx2, NoError)

\* A variant of AppendHandler that pushes the handler onto the array itself.
AppendHandlerPush(hs, nx, handler) ==
  IF handler = Undefined \/ handler = Null
    THEN Outcome(hs, nx, ErrNullHandler)
    ELSE Outcome(hs \o <<handler>>, nx, NoError)

AppendHandler(hs, nx, handler) ==
  IF handler = Undefined \/ handler = Null
    THEN Outcome(hs, nx, ErrNullHandler)
    ELSE InsertHandlerAt(hs, nx, Len(hs), handler)

PrependHandler(hs, nx, handler) ==
  IF handler = Undefined \/ handler = Null
    THEN Outcome(hs, nx, ErrNullHandler)
    ELSE InsertHandlerAt(hs, nx, 0, handler)

\* A variant of AddHandlerAfter that inserts at the reference handler's own
\* index.
AddHandlerAfterAtIndex(hs, nx, handler, newHandler) ==
  IF handler = Undefined \/ handler = Null
    THEN Outcome(hs, nx, ErrNullHandler)
  ELSE IF newHandler = Undefined \/ newHandler = Null
    THEN Outcome(hs, nx, ErrNullNewHandler)
  ELSE
    LET index == IndexOf(hs, handler)
    IN  IF index = -1
          THEN Outcome(hs, nx, ErrNotFound)
          ELSE InsertHandlerAt(hs, nx, index, newHandler)

\* A variant of AddHandlerAfter without the not-found check: indexOf gives
\* -1 and the new handler goes to index 0.
AddHandlerAfterUnchecked(hs, nx, handler, newHandler) ==
  IF handler = Undefined \/ handler = Null
    THEN Outcome(hs, nx, ErrNullHandler)
  ELSE IF newHandler = Undefined \/ newHandler = Null
    THEN Outcome(hs, nx, ErrNullNewHandler)
  ELSE InsertHandlerAt(hs, nx, IndexOf(hs, handler) + 1, newHandler)

AddHandlerAfter(hs, nx, handler, newHandler) ==
  IF handler = Undefined \/ handler = Null
    THEN Outcome(hs, nx, ErrNullHandler)
  ELSE IF newHandler = Undefined \/ newHandler = Null
    THEN Outcome(hs, nx, ErrNullNewHandler)
  ELSE
    LET index == IndexOf(hs, handler)
    IN  IF index = -1
          THEN Outcome(hs, nx, ErrNotFound)
          ELSE InsertHandlerAt(hs, nx, index + 1, newHandler)

\* A variant of AddHandlerBefore that inserts one past the reference
\* handler's index.
AddHandlerBeforeAtNext(hs, nx, handler, newHandler) ==
  IF handler = Undefined \/ handler = Null
    THEN Outcome(hs, nx, ErrNullHandler)
  ELSE IF newHandler = Undefined \/ newHandler = Null
    THEN Outcome(hs, nx, ErrNullNewHandler)
  ELSE
    LET index == IndexOf(hs, handler)
    IN  IF index = -1
          THEN Outcome(hs, nx, ErrNotFound)
          ELSE InsertHandlerAt(hs, nx, index + 1, newHandler)

\* A variant of AddHandlerBefore that looks the reference handler up before
\* it checks the new handler.
AddHandlerBeforeFindsFirst(hs, nx, handler, newHandler) ==
  IF handler = Undefined \/ handler = Null
    THEN Outcome(hs, nx, ErrNullHandler)
  ELSE
    LET index == IndexOf(hs, handler)
    IN  IF index = -1
          THEN Outcome(hs, nx, ErrNotFound)
        ELSE IF newHandler = Undefined \/ newHandler = Null
          THEN Outcome(hs, nx, ErrNullNewHandler)
        ELSE InsertHandlerAt(hs, nx, index, newHandler)

AddHandlerBefore(hs, nx, handler, newHandler) ==
  IF handler = Undefined \/ handler = Null
    THEN Outcome(hs, nx, ErrNullHandler)
  ELSE IF newHandler = Undefined \/ newHandler = Null
    THEN Outcome(hs, nx, ErrNullNewHandler)
  ELSE
    LET index == IndexOf(hs, handler)
    IN  IF index = -1
          THEN Outcome(hs, nx, ErrNotFound)
          ELSE InsertHandlerAt(hs, nx, index, newHandler)

\* A variant of ClearHandlers that also clears the next of every handler it
\* held.
ClearHandlersUnlinking(hs, nx) ==
  Outcome(<<>>,
          [h \in DOMAIN nx |-> IF \E i \in 1..Len(hs) : hs[i] = h THEN Undefined ELSE nx[h]],
          NoError)

ClearHandlers(hs, nx) ==
  Outcome(<<>>, nx, NoError)

----------------------------------------------------------------------------
\* ExecutionContext and PipelineHandler.invoke.

\* What a context argument is: an ExecutionContext object, undefined or null.
ContextObject == "object"
ContextUndefined == "undefined"
ContextNull == "null"

\* new ExecutionContext(input): _output is left unset.
NewContext(input) ==
  [value |-> ContextObject, input |-> input, output |-> Undefined]

\* undefined or null passed where a context is expected; reading a property
\* of it is a TypeError, so its fields are never read as values.
AbsentContext(v) ==
  [value |-> v, input |-> Undefined, output |-> Undefined]

\* context.input + suffix, for the suffix of handler h: the decimal digit h
\* appended to the input.
Suffixed(input, h) ==
  input * 10 + h

\* A variant of OwnWork in which a writer feeds what it wrote to the handlers
\* after it, as their input.
OwnWorkRewritesInput(k, h, ctx) ==
  IF k = Writer
    THEN [ctx EXCEPT !.output = Suffixed(ctx.input, h),
                     !.input = Suffixed(ctx.input, h)]
    ELSE ctx

\* What a handler of kind k does before it calls super.invoke.
OwnWork(k, h, ctx) ==
  IF k = Writer THEN [ctx EXCEPT !.output = Suffixed(ctx.input, h)] ELSE ctx

\* A handler of kind k reads context.input and writes context.output, which
\* is a TypeError when the context is undefined or null.
OwnWorkThrows(k, ctx) ==
  k = Writer /\ ctx.value # ContextObject

\* A variant of ContextRefused that refuses null as well.
ContextRefusedIfAbsent(ctx) ==
  ctx.value \in {ContextUndefined, ContextNull}

\* The check of the base invoke and invokeAsync: context === undefined.
ContextRefused(ctx) ==
  ctx.value = ContextUndefined

\* A variant of Forwards that never forwards.
ForwardsNever(nx, h) ==
  FALSE

\* this._next?.invoke(context) makes the call unless _next is undefined or
\* null.
Forwards(nx, h) ==
  nx[h] # Undefined /\ nx[h] # Null

\* h.invoke(ctx), with depth frames of invoke on the stack, h's included:
\* the handler's own work, then the base invoke, which refuses an undefined
\* context and otherwise forwards to _next when there is one.  invoked lists
\* the handlers whose invoke was called, in call order, and inputs what
\* context.input was at each of those calls.  A chain of more than
\* NumHandlers frames has come back to a handler it already ran, and so
\* recurses until the engine's stack is exhausted.
RECURSIVE Invoke(_, _, _, _, _)
Invoke(nx, kd, h, ctx, depth) ==
  IF depth > NumHandlers
    THEN [ctx |-> ctx, invoked |-> <<>>, inputs |-> <<>>, error |-> ErrStack]
  ELSE IF OwnWorkThrows(kd[h], ctx)
    THEN [ctx |-> ctx, invoked |-> <<h>>, inputs |-> <<ctx.input>>, error |-> ErrType]
  ELSE
    LET ctx1 == OwnWork(kd[h], h, ctx)
    IN  IF ContextRefused(ctx1)
          THEN [ctx |-> ctx1, invoked |-> <<h>>, inputs |-> <<ctx.input>>,
                error |-> ErrContext]
        ELSE IF ~Forwards(nx, h)
          THEN [ctx |-> ctx1, invoked |-> <<h>>, inputs |-> <<ctx.input>>,
                error |-> NoError]
        ELSE LET r == Invoke(nx, kd, nx[h], ctx1, depth + 1)
             IN  [r EXCEPT !.invoked = <<h>> \o r.invoked,
                           !.inputs = <<ctx.input>> \o r.inputs]

\* No context has been constructed.
NoContext ==
  AbsentContext(ContextUndefined)

\* A variant of Execute that answers an empty plan with an absent output
\* instead of an error.
ExecuteLenient(hs, nx, kd, input) ==
  IF Len(hs) = 0
    THEN [output |-> Undefined, invoked |-> <<>>, inputs |-> <<>>,
          ctx |-> NoContext, error |-> NoError]
    ELSE LET r == Invoke(nx, kd, At(hs, 0), NewContext(input), 1)
         IN  [output |-> IF r.error = NoError THEN r.ctx.output ELSE Undefined,
              invoked |-> r.invoked,
              inputs |-> r.inputs,
              ctx |-> r.ctx,
              error |-> r.error]

\* ExecutionPlan.execute(input): the value returned (none when it throws),
\* the handlers invoked, the context as the call leaves it and the error.
Execute(hs, nx, kd, input) ==
  IF Len(hs) = 0
    THEN [output |-> Undefined, invoked |-> <<>>, inputs |-> <<>>,
          ctx |-> NoContext, error |-> ErrEmpty]
    ELSE LET r == Invoke(nx, kd, At(hs, 0), NewContext(input), 1)
         IN  [output |-> IF r.error = NoError THEN r.ctx.output ELSE Undefined,
              invoked |-> r.invoked,
              inputs |-> r.inputs,
              ctx |-> r.ctx,
              error |-> r.error]

----------------------------------------------------------------------------
\* PipelineHandler.invokeAsync, ExecutionPlan.executeAsync.

\* The states of the promise an asynchronous call returned.
Pending == "pending"
Resolved == "resolved"
Rejected == "rejected"

\* What is recorded of a handler's invokeAsync: the call being made, and the
\* promise it returned being settled.
Begin(h) == [e |-> "begin", h |-> h]
Settle(h) == [e |-> "settle", h |-> h]

\* The part of h.invokeAsync(ctx) that runs before the call returns its
\* promise, h's being frame number depth: the handler's own work, the base
\* invokeAsync's refusal of an undefined context, and the call of
\* _next.invokeAsync inside the await, which runs that handler's first part
\* in turn.  A handler that throws has settled its promise (rejected) by the
\* time it returns it; every other handler is left waiting at its await:
\* those are listed in awaiting, outermost first.  One invocation stands for
\* the override and the base method it calls.
RECURSIVE InvokeAsync(_, _, _, _, _)
InvokeAsync(nx, kd, h, ctx, depth) ==
  IF depth > NumHandlers
    THEN [ctx |-> ctx, events |-> <<>>, awaiting |-> <<>>, error |-> ErrStack]
  ELSE IF OwnWorkThrows(kd[h], ctx)
    THEN [ctx |-> ctx, events |-> <<Begin(h), Settle(h)>>, awaiting |-> <<>>,
          error |-> ErrType]
  ELSE
    LET ctx1 == OwnWork(kd[h], h, ctx)
    IN  IF ContextRefused(ctx1)
          THEN [ctx |-> ctx1, events |-> <<Begin(h), Settle(h)>>,
                awaiting |-> <<>>, error |-> ErrContext]
        ELSE IF ~Forwards(nx, h)
          THEN [ctx |-> ctx1, events |-> <<Begin(h)>>, awaiting |-> <<h>>,
                error |-> NoError]
        ELSE LET r == InvokeAsync(nx, kd, nx[h], ctx1, depth + 1)
             IN  [r EXCEPT !.events = <<Begin(h)>> \o r.events,
                           !.awaiting = <<h>> \o r.awaiting]

\* A variant of ExecuteAsyncBegin that starts the traversal without looking
\* at the length of the array, and finds the plan empty only when it reads
\* the result.
ExecuteAsyncBeginUnchecked(hs, nx, kd, input) ==
  IF Len(hs) = 0
    THEN [ctx |-> NewContext(input), events |-> <<>>, awaiting |-> <<>>,
          error |-> ErrEmpty, status |-> Pending]
    ELSE [status |-> Pending] @@ InvokeAsync(nx, kd, At(hs, 0), NewContext(input), 1)

\* A variant of ExecuteAsyncBegin that constructs the context without the
\* input.
ExecuteAsyncBeginNoInput(hs, nx, kd, input) ==
  IF Len(hs) = 0
    THEN [ctx |-> NoContext, events |-> <<>>, awaiting |-> <<>>,
          error |-> ErrEmpty, status |-> Rejected]
    ELSE [status |-> Pending] @@ InvokeAsync(nx, kd, At(hs, 0), NewContext(Undefined), 1)

\* The part of executeAsync(input) that runs before the call returns its
\* promise: the check for an empty array, which rejects the promise, the
\* construction of the context and the first part of
\* this._handlers[0].invokeAsync(context), at whose await executeAsync is
\* left waiting.
ExecuteAsyncBegin(hs, nx, kd, input) ==
  IF Len(hs) = 0
    THEN [ctx |-> NoContext, events |-> <<>>, awaiting |-> <<>>,
          error |-> ErrEmpty, status |-> Rejected]
    ELSE [status |-> Pending] @@ InvokeAsync(nx, kd, At(hs, 0), NewContext(input), 1)

\* A variant of Resumes in which the outermost waiting invocation goes on
\* first.
ResumesOutermost(awaiting) ==
  1

\* Which of the waiting invocations goes on next: the innermost, since each
\* of the others waits for the promise of the one it called
\* (await this._next?.invokeAsync(context)).
Resumes(awaiting) ==
  Len(awaiting)

\* A variant of ChainSettled in which executeAsync does not wait for the
\* promise of handlers[0].invokeAsync.
ChainSettledAlways(call) ==
  TRUE

\* await this._handlers[0].invokeAsync(context): executeAsync goes on when
\* the promise of the first handler's invocation has settled, which by
\* Resumes is when no invocation is left waiting.
ChainSettled(call) ==
  Len(call.awaiting) = 0

\* How a promise settles: rejected with the error thrown, resolved otherwise.
SettledAs(err) ==
  IF err = NoError THEN Resolved ELSE Rejected

\* The contexts a caller passes to invoke / invokeAsync: undefined, null, or
\* a context constructed from an input.
ContextArgs ==
  {AbsentContext(ContextUndefined), AbsentContext(ContextNull)}
    \cup {NewContext(input) : input \in Inputs}

\* An asynchronous call of a caller: the method, its arguments, the state of
\* the promise it returned, the invocations still waiting at their await
\* (outermost first), what has happened so far, and the error or the value
\* the promise settles with.
AsyncCall(op, status, input, handler, awaiting, events, err, result) ==
  [op |-> op, status |-> status, input |-> input, handler |-> handler,
   awaiting |-> awaiting, events |-> events, error |-> err, result |-> result]

\* The caller has no call in flight.
NoCall ==
  AsyncCall("none", "none", Undefined, Undefined, <<>>, <<>>, NoError, Undefined)

\* A variant of ContextSlot in which the plan keeps one context for all its
\* calls.
ContextSlotShared(c) ==
  "A"

\* const context = new ExecutionContext(input): every call of executeAsync
\* constructs a context of its own.
ContextSlot(c) ==
  c

\* The state machine: one action per public method, each a whole call made
\* by a caller that is between calls.

Call(op, p, index, handler, newHandler, err) ==
  [op |-> op, plan |-> p, index |-> index, handler |-> handler,
   newHandler |-> newHandler, error |-> err]

\* The caller is between calls: it has seen the outcome of its last call.
Idle ==
  Call("idle", "P", Undefined, Undefined, Undefined, NoError)

\* The plans and links as they are now.
Snapshot ==
  [handlers |-> handlers, next |-> next]

\* A structural call on plan p has completed with outcome r.
Completes(op, p, index, handler, newHandler, r) ==
  /\ handlers' = [handlers EXCEPT ![p] = r.handlers]
  /\ next' = r.next
  /\ last' = Call(op, p, index, handler, newHandler, r.error)
  /\ pre' = Snapshot
  /\ UNCHANGED <<kind, invoked, output, seen, contexts, calls, history>>

\* The indices a caller tries on an array of length n: all valid ones and
\* one beyond each end.
Indices(n) == -1..(n + 1)

CallInsertHandlerAt ==
  /\ last = Idle
  /\ \E p \in DOMAIN handlers, h \in HandlerArgs :
       \E index \in Indices(Len(handlers[p])) :
         Completes("insertHandlerAt", p, index, h, Undefined,
                   InsertHandlerAt(handlers[p], next, index, h))

CallAppendHandler ==
  /\ last = Idle
  /\ \E p \in DOMAIN handlers, h \in HandlerArgs :
       Completes("appendHandler", p, Undefined, h, Undefined,
                 AppendHandler(handlers[p], next, h))

CallPrependHandler ==
  /\ last = Idle
  /\ \E p \in DOMAIN handlers, h \in HandlerArgs :
       Completes("prependHandler", p, Undefined, h, Undefined,
                 PrependHandler(handlers[p], next, h))

CallAddHandlerAfter ==
  /\ last = Idle
  /\ \E p \in DOMAIN handlers, h \in HandlerArgs, n \in HandlerArgs :
       Completes("addHandlerAfter", p, Undefined, h, n,
                 AddHandlerAfter(handlers[p], next, h, n))

CallAddHandlerBefore ==
  /\ last = Idle
  /\ \E p \in DOMAIN handlers, h \in HandlerArgs, n \in HandlerArgs :
       Completes("addHandlerBefore", p, Undefined, h, n,
                 AddHandlerBefore(handlers[p], next, h, n))

CallRemoveHandlerAt ==
  /\ last = Idle
  /\ \E p \in DOMAIN handlers :
       \E index \in Indices(Len(handlers[p])) :
         Completes("removeHandlerAt", p, index, Undefined, Undefined,
                   RemoveHandlerAt(handlers[p], next, index))

CallRemoveHandler ==
  /\ last = Idle
  /\ \E p \in DOMAIN handlers, h \in HandlerArgs :
       Completes("removeHandler", p, Undefined, h, Undefined,
                 RemoveHandler(handlers[p], next, h))

CallClearHandlers ==
  /\ last = Idle
  /\ \E p \in DOMAIN handlers :
       Completes("clearHandlers", p, Undefined, Undefined, Undefined,
                 ClearHandlers(handlers[p], next))

CallExecute ==
  /\ last = Idle
  /\ \E p \in DOMAIN handlers, input \in Inputs :
       LET r == Execute(handlers[p], next, kind, input)
       IN  /\ invoked' = r.invoked
           /\ output' = r.output
           /\ seen' = r.inputs
           /\ contexts' = [contexts EXCEPT ![Sync] = r.ctx]
           /\ last' = Call("execute", p, input, Undefined, Undefined, r.error)
           /\ pre' = Snapshot
           /\ UNCHANGED <<handlers, next, kind, calls, history>>

\* handler.invoke(context), called by a client on any handler object.
CallInvoke ==
  /\ last = Idle
  /\ \E h \in Handlers, ctx \in ContextArgs :
       LET r == Invoke(next, kind, h, ctx, 1)
       IN  /\ invoked' = r.invoked
           /\ seen' = r.inputs
           /\ contexts' = [contexts EXCEPT ![Sync] = r.ctx]
           /\ last' = Call("invoke", "P", ctx.input, h, Undefined, r.error)
           /\ pre' = Snapshot
           /\ UNCHANGED <<handlers, next, kind, output, calls, history>>

\* handler.invokeAsync(context), called by a client on any handler object:
\* the part that runs before the promise is returned.
StartInvokeAsync ==
  /\ last = Idle
  /\ \E h \in Handlers, ctx \in ContextArgs :
       LET r == InvokeAsync(next, kind, h, ctx, 1)
           status == IF Len(r.awaiting) = 0 THEN SettledAs(r.error) ELSE Pending
       IN  /\ calls' = [calls EXCEPT !["A"] =
                          AsyncCall("invokeAsync", status, ctx.input, h,
                                    r.awaiting, r.events, r.error, Undefined)]
           /\ contexts' = [contexts EXCEPT !["A"] = r.ctx]
           /\ last' = Call("invokeAsync", "P", ctx.input, h, Undefined, NoError)
           /\ pre' = Snapshot
           /\ UNCHANGED <<handlers, next, kind, invoked, output, seen, history>>

\* plan.executeAsync(input), called by a caller with no call in flight,
\* possibly while the other caller's executeAsync is in flight: the part that
\* runs before the promise is returned.  Caller A is the one that calls
\* first.
StartExecuteAsync ==
  /\ last = Idle \/ last.op = "executeAsync"
  /\ \E c \in Callers, p \in DOMAIN handlers, input \in Inputs :
       LET r == ExecuteAsyncBegin(handlers[p], next, kind, input)
       IN  /\ calls[c] = NoCall
           /\ c = "B" => calls["A"] # NoCall
           /\ calls' = [calls EXCEPT ![c] =
                          AsyncCall("executeAsync", r.status, input, Undefined,
                                    r.awaiting, r.events, r.error, Undefined)]
           /\ contexts' = [contexts EXCEPT ![ContextSlot(c)] = r.ctx]
           /\ last' = Call("executeAsync", p, Undefined, Undefined, Undefined, NoError)
           /\ pre' = Snapshot
           /\ UNCHANGED <<handlers, next, kind, invoked, output, seen, history>>

\* A waiting invocation goes on after its await and returns: its promise
\* settles.  When it is the invocation the client itself made, the client's
\* promise is that promise.
SettleInvokeAsync ==
  \E c \in Callers :
    LET call == calls[c]
        i == Resumes(call.awaiting)
        rest == SubSeq(call.awaiting, 1, i - 1) \o
                SubSeq(call.awaiting, i + 1, Len(call.awaiting))
    IN  /\ call.status = Pending
        /\ Len(call.awaiting) > 0
        /\ calls' = [calls EXCEPT ![c] =
                       [call EXCEPT
                          !.awaiting = rest,
                          !.events = call.events \o <<Settle(call.awaiting[i])>>,
                          !.status = IF call.op = "invokeAsync" /\ Len(rest) = 0
                                       THEN SettledAs(call.error)
                                       ELSE Pending]]
        /\ UNCHANGED <<handlers, next, kind, last, pre, invoked, output, seen, contexts, history>>

\* executeAsync goes on after its await: it returns context.output, or
\* throws what the first handler's promise was rejected with.
ResolveExecuteAsync ==
  \E c \in Callers :
    LET call == calls[c]
    IN  /\ call.op = "executeAsync"
        /\ call.status = Pending
        /\ ChainSettled(call)
        /\ calls' = [calls EXCEPT ![c] =
                       [call EXCEPT
                          !.status = SettledAs(call.error),
                          !.result = IF call.error = NoError
                                       THEN contexts[ContextSlot(c)].output
                                       ELSE Undefined]]
        /\ UNCHANGED <<handlers, next, kind, last, pre, invoked, output, seen, contexts, history>>

\* The caller has seen the outcome of its call (a return or a throw) and
\* goes on to its next call.
\* The caller has seen the outcome of its calls and is between calls again.
Proceeds ==
  /\ last # Idle
  /\ \A c \in Callers : calls[c].status # Pending
  /\ last' = Idle
  /\ pre' = Snapshot
  /\ invoked' = <<>>
  /\ output' = Undefined
  /\ seen' = <<>>
  /\ contexts' = [s \in DOMAIN contexts |-> NoContext]
  /\ calls' = [c \in Callers |-> NoCall]
  /\ UNCHANGED <<handlers, next, kind>>

Continue ==
  /\ Proceeds
  /\ UNCHANGED history

\* The handlers the last call took out of the plan it was made on.
TakenOut ==
  {h \in Handlers :
     (\E i \in 1..Len(pre.handlers[last.plan]) : pre.handlers[last.plan][i] = h)
       /\ (\A j \in 1..Len(handlers[last.plan]) : handlers[last.plan][j] # h)}

\* The last call put into the plan a handler that was not as constructed:
\* it had a next, or was the next of some handler, as a handler taken out of
\* a plan can be.
PutInLinked ==
  \E h \in Handlers :
    /\ \A i \in 1..Len(pre.handlers[last.plan]) : pre.handlers[last.plan][i] # h
    /\ \E j \in 1..Len(handlers[last.plan]) : handlers[last.plan][j] = h
    /\ \/ pre.next[h] # Undefined
       \/ \E g \in Handlers : pre.next[g] = h

\* Continue, with a record of what the caller's calls have done so far:
\* whether a handler was taken out of the plan (by removeHandlerAt,
\* removeHandler or clearHandlers), and whether a handler was put in that was
\* not as constructed.
ContinueTracking ==
  /\ Proceeds
  /\ history' = [removed |-> history.removed \/ TakenOut # {},
                 relinked |-> history.relinked \/ PutInLinked]

\* Plans as constructed (an empty array each) and handlers constructed
\* without a next, of the kinds kd.
InitWith(plans, kinds) ==
  /\ handlers = [p \in plans |-> <<>>]
  /\ next = [h \in Handlers |-> Undefined]
  /\ kind \in [Handlers -> kinds]
  /\ last = Idle
  /\ pre = [handlers |-> [p \in plans |-> <<>>], next |-> [h \in Handlers |-> Undefined]]
  /\ invoked = <<>>
  /\ output = Undefined
  /\ seen = <<>>
  /\ contexts = [s \in Callers \cup {Sync} |-> NoContext]
  /\ calls = [c \in Callers |-> NoCall]
  /\ history = [removed |-> FALSE, relinked |-> FALSE]

\* One plan, handlers constructed without a next, every structural method.
Init ==
  InitWith(OnePlan, {Base})

Next ==
  \/ CallInsertHandlerAt
  \/ CallAppendHandler
  \/ CallPrependHandler
  \/ CallAddHandlerAfter
  \/ CallAddHandlerBefore
  \/ CallRemoveHandlerAt
  \/ CallRemoveHandler
  \/ CallClearHandlers
  \/ Continue

Spec == Init /\ [][Next]_vars

\* One plan built by insertion only, out of handlers of either kind
\* constructed without a next, and executed.
InitInsert ==
  InitWith(OnePlan, Kinds)

NextInsert ==
  \/ CallInsertHandlerAt
  \/ CallAppendHandler
  \/ CallPrependHandler
  \/ CallAddHandlerAfter
  \/ CallAddHandlerBefore
  \/ CallExecute
  \/ Continue

SpecInsert == InitInsert /\ [][NextInsert]_vars

\* One plan and handlers constructed without a next, of which the first few
\* are plain PipelineHandlers and the others writers: handler objects differ
\* in nothing but their class, and any of them can be inserted anywhere, so
\* numbering the writers last loses no plan.
InitExecute ==
  /\ InitWith(OnePlan, Kinds)
  /\ \A h \in Handlers : \A g \in Handlers :
       (h < g /\ kind[h] = Writer) => kind[g] = Writer

\* The plan is built by insertion only; between structural calls it is
\* executed, synchronously or by up to two callers asynchronously, and
\* handlers are invoked directly.
NextExecute ==
  \/ CallInsertHandlerAt
  \/ CallAppendHandler
  \/ CallPrependHandler
  \/ CallAddHandlerAfter
  \/ CallAddHandlerBefore
  \/ CallExecute
  \/ CallInvoke
  \/ StartInvokeAsync
  \/ StartExecuteAsync
  \/ SettleInvokeAsync
  \/ ResolveExecuteAsync
  \/ Continue

SpecExecute == InitExecute /\ [][NextExecute]_vars

\* One plan built by appendHandler only, out of writing handlers constructed
\* without a next, and executed by either method.
InitAppend ==
  InitWith(OnePlan, {Writer})

NextAppend ==
  \/ CallAppendHandler
  \/ CallExecute
  \/ StartExecuteAsync
  \/ SettleInvokeAsync
  \/ ResolveExecuteAsync
  \/ Continue

SpecAppend == InitAppend /\ [][NextAppend]_vars

\* One plan, handlers constructed without a next, insertion at any position,
\* every removal and execute, with the record of removals and of insertions
\* of linked handlers.  (prependHandler, addHandlerAfter and addHandlerBefore
\* are calls of insertHandlerAt.)
NextTracking ==
  \/ CallInsertHandlerAt
  \/ CallAppendHandler
  \/ CallRemoveHandlerAt
  \/ CallRemoveHandler
  \/ CallClearHandlers
  \/ CallExecute
  \/ ContinueTracking

SpecTracking == Init /\ [][NextTracking]_vars

\* Two plans over the same handler objects.
InitTwoPlans ==
  InitWith(TwoPlans, {Base})

SpecTwoPlans == InitTwoPlans /\ [][Next]_vars

----------------------------------------------------------------------------
\* Vocabulary of the properties below.

Members(hs) == {hs[i] : i \in 1..Len(hs)}

\* The array of the plan the last call was made on, before and after it.
PreSeq == pre.handlers[last.plan]
PostSeq == handlers[last.plan]

Succeeded(op) == last.op = op /\ last.error = NoError

InsertOps ==
  {"insertHandlerAt", "appendHandler", "prependHandler", "addHandlerAfter", "addHandlerBefore"}

\* The handler an insertion call was asked to insert.
Inserted ==
  IF last.op \in {"addHandlerAfter", "addHandlerBefore"} THEN last.newHandler ELSE last.handler

----------------------------------------------------------------------------
\* C1 (SpecInsert): in a plan built by insertions only out of handlers
\* constructed without a next, every adjacent pair is linked:
\* handlers[i].next === handlers[i+1].
C1_Adjacency ==
  \A p \in DOMAIN handlers :
    \A i \in 1..(Len(handlers[p]) - 1) :
      next[handlers[p][i]] = handlers[p][i + 1]

\* C2 (SpecInsert): execute on a non-empty plan built by insertions only
\* invokes every member of the sequence exactly once, in sequence order, and
\* nothing else.
C2_Traversal ==
  (last.op = "execute" /\ Len(PostSeq) > 0)
    => (last.error = NoError /\ invoked = PostSeq)

\* C3: a successful insertHandlerAt(index, handler) with index < N sets
\* handler.next to the handler that occupied position index before the call,
\* which is the handler right after the new one once the call is done.
C3_SuccessorIsOccupant ==
  (Succeeded("insertHandlerAt") /\ last.index < Len(PreSeq))
    => /\ next[last.handler] = At(PreSeq, last.index)
       /\ next[last.handler] = At(PostSeq, last.index + 1)

\* C4: a successful insertHandlerAt(index, handler) with index < N sets
\* handler.next to the handler that was at position index+1 before the call,
\* and to undefined when index = N-1.
C4_SuccessorIsNextIndex ==
  (Succeeded("insertHandlerAt") /\ last.index < Len(PreSeq))
    => /\ next[last.handler] = At(PreSeq, last.index + 1)
       /\ (last.index = Len(PreSeq) - 1 => next[last.handler] = Undefined)

\* The test suite's case: on [h1, h2], insertHandlerAt(0, h3) leaves
\* h3.next === h2.
C4_Witness ==
  /\ Succeeded("insertHandlerAt")
  /\ last.index = 0
  /\ Len(PreSeq) = 2
  /\ next[last.handler] = PreSeq[2]

\* C5: after a successful insertHandlerAt(index, handler) with index > 0 the
\* handler at position index-1 has next === handler.
C5_PredecessorLinked ==
  (Succeeded("insertHandlerAt") /\ last.index > 0)
    => /\ At(PostSeq, last.index - 1) = At(PreSeq, last.index - 1)
       /\ next[At(PostSeq, last.index - 1)] = last.handler

\* An insertion behind a handler whose next pointed at some other handler.
C5_Witness ==
  /\ Succeeded("insertHandlerAt")
  /\ last.index > 0
  /\ pre.next[At(PreSeq, last.index - 1)] \in Handlers \ {last.handler}
  /\ next[At(PostSeq, last.index - 1)] = last.handler

\* C6: for every index in [0, N] and every handler object not in the plan,
\* insertHandlerAt(index, handler) succeeds, makes the array one longer, puts
\* handler at position index, and keeps the others in order, those at
\* positions >= index one further right.
C6_InsertedAtIndex ==
  ( /\ last.op = "insertHandlerAt"
    /\ 0 <= last.index /\ last.index <= Len(PreSeq)
    /\ last.handler \in Handlers \ Members(PreSeq) )
    => /\ last.error = NoError
       /\ Len(PostSeq) = Len(PreSeq) + 1
       /\ At(PostSeq, last.index) = last.handler
       /\ \A j \in 0..(Len(PreSeq) - 1) :
            At(PostSeq, IF j < last.index THEN j ELSE j + 1) = At(PreSeq, j)

\* An insertion strictly inside an array of two or more.
C6_Witness ==
  /\ Succeeded("insertHandlerAt")
  /\ 0 < last.index /\ last.index < Len(PreSeq)
  /\ PostSeq[last.index + 1] = last.handler
  /\ Len(PostSeq) = Len(PreSeq) + 1

\* C7 as stated: every call that inserts a handler already in the array
\* fails with the duplicate-membership error and leaves the array unchanged.
C7_AlwaysDuplicateError ==
  (last.op \in InsertOps /\ Inserted \in Members(PreSeq))
    => (last.error = ErrDuplicate /\ PostSeq = PreSeq)

\* The error such a call ends with: the checks that come before the
\* duplicate check fail first.
C7_ExpectedError ==
  IF last.op = "insertHandlerAt"
    THEN IF last.index < 0 \/ last.index > Len(PreSeq) THEN ErrIndex ELSE ErrDuplicate
  ELSE IF last.op \in {"addHandlerAfter", "addHandlerBefore"}
    THEN IF last.handler \in {Undefined, Null} THEN ErrNullHandler
         ELSE IF last.handler \notin Members(PreSeq) THEN ErrNotFound
         ELSE ErrDuplicate
  ELSE ErrDuplicate

\* C7 as amended: every call that inserts a handler already in the array
\* fails and leaves the array unchanged; the error is the duplicate-membership
\* error when the call's other argument is valid (an index in [0, N], a
\* reference handler that is a member), and otherwise the error of that
\* argument: index out of range, null handler or not found.
C7_DuplicateRejected ==
  (last.op \in InsertOps /\ Inserted \in Members(PreSeq))
    => (last.error = C7_ExpectedError /\ PostSeq = PreSeq)

\* A handler of an array of two or more is inserted again and refused as a
\* duplicate.
C7_Witness ==
  /\ last.op \in InsertOps
  /\ Inserted \in Members(PreSeq)
  /\ Len(PreSeq) >= 2
  /\ last.error = ErrDuplicate
  /\ PostSeq = PreSeq

\* C8: under any sequence of insertions, removals and clears, no handler
\* occurs at two positions of a plan's array.
C8_Unique ==
  \A p \in DOMAIN handlers :
    \A i, j \in 1..Len(handlers[p]) :
      i # j => handlers[p][i] # handlers[p][j]

\* A handler that was in the plan before (it still carries a link from then)
\* has been inserted again, and the plan holds every handler.
C8_Witness ==
  /\ last.op \in InsertOps
  /\ last.error = NoError
  /\ pre.next[Inserted] # Undefined
  /\ Inserted \in Members(PostSeq)
  /\ Len(PostSeq) = NumHandlers

\* C9 (SpecTwoPlans): a handler that is a member of one plan cannot be
\* inserted into another; every handler is a member of at most one plan.
C9_OnePlanPerHandler ==
  /\ \A h \in Handlers :
       Cardinality({p \in DOMAIN handlers : h \in Members(handlers[p])}) <= 1
  /\ (last.op \in InsertOps
        /\ \E q \in DOMAIN handlers \ {last.plan} : Inserted \in Members(pre.handlers[q]))
       => last.error # NoError

\* C10: a successful removeHandlerAt(index) or removeHandler(handler) makes
\* the array one shorter, removes exactly the targeted handler, and keeps the
\* remaining handlers in order.
C10_RemovedAt(i) ==
  /\ 0 <= i /\ i < Len(PreSeq)
  /\ Len(PostSeq) = Len(PreSeq) - 1
  /\ At(PreSeq, i) \notin Members(PostSeq)
  /\ \A j \in 0..(Len(PostSeq) - 1) :
       At(PostSeq, j) = At(PreSeq, IF j < i THEN j ELSE j + 1)

C10_Removal ==
  /\ Succeeded("removeHandlerAt") => C10_RemovedAt(last.index)
  /\ Succeeded("removeHandler") =>
       \E i \in 0..(Len(PreSeq) - 1) :
         At(PreSeq, i) = last.handler /\ C10_RemovedAt(i)

\* The middle handler of an array of three is removed, by reference.
C10_Witness ==
  /\ Succeeded("removeHandler")
  /\ Len(PreSeq) = 3
  /\ PreSeq[2] = last.handler
  /\ PostSeq = <<PreSeq[1], PreSeq[3]>>

\* C11: removeHandlerAt(index) fails with the index-out-of-range error
\* exactly when index < 0 or index >= N, and a failing call leaves the array
\* and every next link unchanged.
C11_RemoveAtRange ==
  last.op = "removeHandlerAt"
    => /\ last.error \in {NoError, ErrIndex}
       /\ last.error = ErrIndex <=> (last.index < 0 \/ last.index >= Len(PreSeq))
       /\ last.error = ErrIndex => (handlers = pre.handlers /\ next = pre.next)

\* removeHandlerAt(N) on a plan of N >= 1 linked handlers is refused.
C11_Witness ==
  /\ last.op = "removeHandlerAt"
  /\ last.error = ErrIndex
  /\ last.index = Len(PreSeq)
  /\ Len(PostSeq) >= 2
  /\ next[PostSeq[1]] # Undefined

\* C12: removeHandler(handler) fails with the not-found error exactly when
\* handler is not a member; otherwise the array and the links it leaves are
\* those removeHandlerAt(i) leaves, for i the handler's position.
C12_RemoveByReference ==
  last.op = "removeHandler"
    => /\ last.error \in {NoError, ErrNotFound}
       /\ last.error = ErrNotFound <=> last.handler \notin Members(PreSeq)
       /\ last.handler \in Members(PreSeq) =>
            \E i \in 0..(Len(PreSeq) - 1) :
              /\ At(PreSeq, i) = last.handler
              /\ RemoveHandlerAt(PreSeq, pre.next, i) = Outcome(PostSeq, next, NoError)

\* A member that is not the last one is removed by reference.
C12_Witness ==
  /\ Succeeded("removeHandler")
  /\ Len(PreSeq) >= 2
  /\ last.handler \in Members(PreSeq)
  /\ last.handler # PreSeq[Len(PreSeq)]
  /\ last.handler \notin Members(PostSeq)

\* The position a successful removal took its handler from.
RemovedIndex ==
  IF last.op = "removeHandlerAt" THEN last.index ELSE IndexOf(PreSeq, last.handler)

SucceededRemoval ==
  Succeeded("removeHandlerAt") \/ Succeeded("removeHandler")

\* The chain followed via next from hs[0], as execute walks it, is exactly
\* the array hs.
ChainIsSequence(hs, nx) ==
  LET r == Execute(hs, nx, [h \in Handlers |-> Base], 1)
  IN  r.error = NoError /\ r.invoked = hs

\* C13 as stated: removeHandlerAt and removeHandler leave every next
\* reference unchanged, so that after the removal of a middle handler the
\* chain followed via next differs from the plan's array.
C13_RemovalLeavesStaleChain ==
  SucceededRemoval
    => /\ next = pre.next
       /\ (0 < RemovedIndex /\ RemovedIndex < Len(PreSeq) - 1)
            => ~ChainIsSequence(PostSeq, next)

\* The removal took a handler that had a member before it and one after it.
RemovedFromMiddle ==
  SucceededRemoval /\ 0 < RemovedIndex /\ RemovedIndex < Len(PreSeq) - 1

\* C13 as amended: removeHandlerAt and removeHandler leave every next
\* reference unchanged, so that after the removal of a middle handler whose
\* predecessor pointed at it, the chain followed via next differs from the
\* plan's array.
C13_RemovalKeepsLinks ==
  SucceededRemoval
    => /\ next = pre.next
       /\ (RemovedFromMiddle
             /\ pre.next[At(PreSeq, RemovedIndex - 1)] = At(PreSeq, RemovedIndex))
            => ~ChainIsSequence(PostSeq, next)

\* The middle one of three linked handlers is removed: its predecessor still
\* points at it and it still points at its successor.
C13_Witness ==
  /\ RemovedFromMiddle
  /\ next[At(PreSeq, RemovedIndex - 1)] = At(PreSeq, RemovedIndex)
  /\ next[At(PreSeq, RemovedIndex)] = At(PreSeq, RemovedIndex + 1)
  /\ ChainIsSequence(PreSeq, pre.next)
  /\ ~ChainIsSequence(PostSeq, next)

\* The handler a successful removal took out of the array.
Removed == At(PreSeq, RemovedIndex)

\* C14 as stated: a handler is unlinked when removed: after a successful
\* removeHandler(h) or removeHandlerAt at h's position, h.next is absent and
\* no remaining member's next is h.
C14_UnlinkedWhenRemoved ==
  SucceededRemoval
    => /\ next[Removed] = Undefined
       /\ \A m \in Members(PostSeq) : next[m] # Removed

\* C14 as amended: after a successful removeHandler(h) or removeHandlerAt at
\* h's position, h is no longer a member of the plan's array, but it is not
\* unlinked: h.next is what it was, and so is the next of every remaining
\* member, a next that is h included.
C14_RemovedButStillLinked ==
  SucceededRemoval
    => /\ Removed \notin Members(PostSeq)
       /\ next[Removed] = pre.next[Removed]
       /\ \A m \in Members(PostSeq) : next[m] = pre.next[m]

\* A handler that pointed at its successor, and that its predecessor pointed
\* at, is removed and both links are still there.
C14_Witness ==
  /\ SucceededRemoval
  /\ Removed \notin Members(PostSeq)
  /\ next[Removed] \in Members(PostSeq)
  /\ \E m \in Members(PostSeq) : next[m] = Removed

\* C15: clearHandlers() always succeeds, leaves handlerCount = 0, and leaves
\* the next reference of every handler it held unchanged.
C15_ClearKeepsLinks ==
  last.op = "clearHandlers"
    => /\ last.error = NoError
       /\ Len(PostSeq) = 0
       /\ \A h \in Members(PreSeq) : next[h] = pre.next[h]

\* A plan of two or more handlers, linked, is cleared.
C15_Witness ==
  /\ last.op = "clearHandlers"
  /\ Len(PreSeq) >= 2
  /\ next[PreSeq[1]] = PreSeq[2]
  /\ Len(PostSeq) = 0

\* What the last call left: the array of its plan, the links, the error.
LastOutcome ==
  Outcome(PostSeq, next, last.error)

\* C16: for every plan state and every handler argument, absent and
\* already-present ones included, appendHandler(h) has the outcome of
\* insertHandlerAt(handlerCount, h) and prependHandler(h) has the outcome of
\* insertHandlerAt(0, h): the same array, the same links, the same error.
C16_AppendPrependAsInsert ==
  /\ last.op = "appendHandler" =>
       LastOutcome = InsertHandlerAt(PreSeq, pre.next, Len(PreSeq), last.handler)
  /\ last.op = "prependHandler" =>
       LastOutcome = InsertHandlerAt(PreSeq, pre.next, 0, last.handler)

\* A handler is appended to a plan of two or more and its predecessor is
\* linked to it, as by insertHandlerAt(handlerCount, h).
C16_Witness ==
  /\ Succeeded("appendHandler")
  /\ Len(PreSeq) >= 2
  /\ PostSeq = PreSeq \o <<last.handler>>
  /\ next[PreSeq[Len(PreSeq)]] = last.handler
  /\ pre.next[PreSeq[Len(PreSeq)]] # last.handler

\* The position of the reference handler of addHandlerAfter / addHandlerBefore
\* in the array before the call.
ReferenceIndex ==
  IndexOf(PreSeq, last.handler)

\* The call was given a member as its reference handler and a handler object
\* that is not a member as its new handler.
AddsFreshBesideMember ==
  /\ last.handler \in Members(PreSeq)
  /\ last.newHandler \in Handlers \ Members(PreSeq)

\* C17: addHandlerAfter(existing, newHandler), existing a member at position
\* p and newHandler a handler object that is not a member, puts newHandler at
\* position p+1, keeps existing at p, and moves the handlers that were at
\* positions > p one to the right.
C17_AddedAfter ==
  (last.op = "addHandlerAfter" /\ AddsFreshBesideMember)
    => /\ last.error = NoError
       /\ Len(PostSeq) = Len(PreSeq) + 1
       /\ At(PostSeq, ReferenceIndex) = last.handler
       /\ At(PostSeq, ReferenceIndex + 1) = last.newHandler
       /\ \A j \in 0..(Len(PreSeq) - 1) :
            At(PostSeq, IF j <= ReferenceIndex THEN j ELSE j + 1) = At(PreSeq, j)

\* A handler is added after a member that is not the last one.
C17_Witness ==
  /\ Succeeded("addHandlerAfter")
  /\ ReferenceIndex < Len(PreSeq) - 1
  /\ At(PostSeq, ReferenceIndex + 1) = last.newHandler
  /\ At(PostSeq, ReferenceIndex + 2) = At(PreSeq, ReferenceIndex + 1)

\* C18: addHandlerBefore(existing, newHandler), existing a member at
\* position p and newHandler a handler object that is not a member, puts
\* newHandler at position p and existing at p+1, with every handler after it
\* one to the right.
C18_AddedBefore ==
  (last.op = "addHandlerBefore" /\ AddsFreshBesideMember)
    => /\ last.error = NoError
       /\ Len(PostSeq) = Len(PreSeq) + 1
       /\ At(PostSeq, ReferenceIndex) = last.newHandler
       /\ At(PostSeq, ReferenceIndex + 1) = last.handler
       /\ \A j \in 0..(Len(PreSeq) - 1) :
            At(PostSeq, IF j < ReferenceIndex THEN j ELSE j + 1) = At(PreSeq, j)

\* A handler is added before a member that is not the first one.
C18_Witness ==
  /\ Succeeded("addHandlerBefore")
  /\ ReferenceIndex > 0
  /\ At(PostSeq, ReferenceIndex) = last.newHandler
  /\ At(PostSeq, ReferenceIndex + 1) = last.handler
  /\ At(PostSeq, ReferenceIndex - 1) = At(PreSeq, ReferenceIndex - 1)

\* addHandlerAfter was given, as its reference, a handler object that is not
\* a member.
AfterNonMember ==
  last.op = "addHandlerAfter" /\ last.handler \in Handlers \ Members(PreSeq)

\* C19 as stated: addHandlerAfter(existing, new) with existing not a member
\* fails with the not-found error whether new is a handler that is not a
\* member, a member, or absent.
C19_NotFoundWhateverNew ==
  AfterNonMember => last.error = ErrNotFound

\* C19 as amended: addHandlerAfter(existing, new) with existing not a member
\* fails with the not-found error whether new is a handler that is not a
\* member or a member; when new is absent (undefined or null) it fails with
\* the null-handler error, which is checked first.
C19_NotFoundUnlessNewAbsent ==
  AfterNonMember
    => last.error = IF last.newHandler \in {Undefined, Null}
                      THEN ErrNullNewHandler
                      ELSE ErrNotFound

\* On a plan that is not empty, a member is given as the new handler and a
\* non-member as the reference: not found, and not duplicate.
C19_Witness ==
  /\ AfterNonMember
  /\ last.newHandler \in Members(PreSeq)
  /\ last.error = ErrNotFound

StructuralOps ==
  InsertOps \cup {"removeHandlerAt", "removeHandler"}

\* C20: whenever insertHandlerAt, appendHandler, prependHandler,
\* addHandlerAfter, addHandlerBefore, removeHandlerAt or removeHandler fails,
\* with any error, the plan's array and the next of every handler are what
\* they were before the call.
C20_RejectedIsAtomic ==
  (last.op \in StructuralOps /\ last.error # NoError)
    => (handlers = pre.handlers /\ next = pre.next)

\* An insertion behind a member whose next is something else is refused as a
\* duplicate, after the checks that precede the linking, and the member's
\* next is still what it was.
C20_Witness ==
  /\ last.op = "insertHandlerAt"
  /\ last.error = ErrDuplicate
  /\ last.index > 0
  /\ pre.next[At(PreSeq, last.index - 1)] # last.handler
  /\ next[At(PreSeq, last.index - 1)] # last.handler

\* C21: insertHandlerAt(index, handler) on a plan of N handlers fails with
\* the index error whenever index < 0 or index > N, and never fails with it
\* when 0 <= index <= N; at index = N a handler object that is not a member
\* is inserted.  On an empty plan the only index not refused is 0.
C21_InsertRange ==
  last.op = "insertHandlerAt"
    => /\ (last.index < 0 \/ last.index > Len(PreSeq)) <=> (last.error = ErrIndex)
       /\ (last.index = Len(PreSeq) /\ last.handler \in Handlers \ Members(PreSeq))
            => (last.error = NoError /\ Len(PostSeq) = Len(PreSeq) + 1)
       /\ (Len(PreSeq) = 0 /\ last.error # ErrIndex) => last.index = 0

\* An insertion at the tail of a plan that is not empty is accepted.
C21_Witness ==
  /\ Succeeded("insertHandlerAt")
  /\ Len(PreSeq) > 0
  /\ last.index = Len(PreSeq)
  /\ At(PostSeq, last.index) = last.handler

Absent == {Undefined, Null}

\* The error a call with an absent handler argument ends with: the first
\* absent argument decides the message.
C22_ExpectedError ==
  IF last.handler \in Absent THEN ErrNullHandler ELSE ErrNullNewHandler

\* The call was given an absent handler argument, and (for insertHandlerAt)
\* an index in range.
C22_AbsentArgument ==
  \/ last.op \in {"appendHandler", "prependHandler"} /\ last.handler \in Absent
  \/ /\ last.op = "insertHandlerAt"
     /\ last.handler \in Absent
     /\ last.index >= 0
     /\ last.index =< Len(PreSeq)
  \/ /\ last.op \in {"addHandlerAfter", "addHandlerBefore"}
     /\ (last.handler \in Absent \/ last.newHandler \in Absent)

\* C22: appendHandler, prependHandler, insertHandlerAt with an index in
\* range, and addHandlerAfter / addHandlerBefore reject an absent (undefined
\* or null) handler argument, either one for the last two, with the
\* null-handler error, on an empty plan too, and handlerCount is unchanged.
C22_AbsentRejected ==
  C22_AbsentArgument
    => (last.error = C22_ExpectedError /\ Len(PostSeq) = Len(PreSeq))

\* addHandlerBefore on an empty plan with a handler object as the reference
\* and no new handler: the null-handler error, and not the not-found error.
C22_Witness ==
  /\ last.op = "addHandlerBefore"
  /\ Len(PreSeq) = 0
  /\ last.handler \in Handlers
  /\ last.newHandler \in Absent
  /\ last.error = ErrNullNewHandler

----------------------------------------------------------------------------
\* Vocabulary of the properties of execution.

\* The handlers whose invokeAsync was called during an asynchronous call,
\* and those whose promise has settled, each in the order it happened.
EventsOf(call, e) ==
  LET es == SelectSeq(call.events, LAMBDA x : x.e = e)
  IN  [i \in 1..Len(es) |-> es[i].h]

Begun(call) == EventsOf(call, "begin")
Settled(call) == EventsOf(call, "settle")

\* The array of the plan the asynchronous calls in flight were made on.
AsyncSeq == handlers[last.plan]

\* What the last writing handler of seq writes, given the input; absent when
\* none of them writes.
LastWrite(seq, input) ==
  LET W == {i \in 1..Len(seq) : kind[seq[i]] = Writer}
  IN  IF W = {}
        THEN Undefined
        ELSE Suffixed(input, seq[CHOOSE i \in W : \A j \in W : j =< i])

\* C23: execute and executeAsync on a plan with no handlers fail with the
\* empty-pipeline error for any input; no handler is invoked, and the promise
\* of executeAsync is rejected when it is returned, so that the call is never
\* left waiting at an await.
C23_EmptyPlanFails ==
  /\ (last.op = "execute" /\ Len(PostSeq) = 0)
       => (last.error = ErrEmpty /\ invoked = <<>>)
  /\ \A c \in Callers :
       (calls[c].op = "executeAsync" /\ Len(AsyncSeq) = 0)
         => /\ calls[c].status = Rejected
            /\ calls[c].error = ErrEmpty
            /\ calls[c].events = <<>>
            /\ calls[c].awaiting = <<>>

\* Both callers have called executeAsync on the empty plan, with different
\* inputs, and both promises are rejected.
C23_Witness ==
  /\ Len(AsyncSeq) = 0
  /\ \A c \in Callers : calls[c].op = "executeAsync" /\ calls[c].status = Rejected
  /\ calls["A"].input # calls["B"].input

\* C24 (SpecAppend): on a plan built by appendHandler only, of n >= 1
\* handlers constructed without a next that write context.output and then
\* forward, execute and executeAsync invoke every handler exactly once, in
\* append order, and return what the handler appended last wrote.
C24_AppendedRunInOrder ==
  /\ (last.op = "execute" /\ Len(PostSeq) >= 1)
       => /\ last.error = NoError
          /\ invoked = PostSeq
          /\ output = Suffixed(last.index, PostSeq[Len(PostSeq)])
  /\ \A c \in Callers :
       (calls[c].op = "executeAsync" /\ Len(AsyncSeq) >= 1)
         => /\ calls[c].error = NoError
            /\ Begun(calls[c]) = AsyncSeq
            /\ calls[c].status \in {Pending, Resolved}
            /\ calls[c].status = Resolved
                 => calls[c].result = Suffixed(calls[c].input, AsyncSeq[Len(AsyncSeq)])

\* executeAsync on two or more appended handlers has resolved with the write
\* of the last one.
C24_Witness ==
  /\ Len(AsyncSeq) >= 2
  /\ calls["A"].op = "executeAsync"
  /\ calls["A"].status = Resolved
  /\ Begun(calls["A"]) = AsyncSeq
  /\ calls["A"].result = Suffixed(calls["A"].input, AsyncSeq[Len(AsyncSeq)])

\* C25 (SpecExecute): execute(input) on a plan that is not empty works on a
\* context constructed from input, with no output; it invokes handlers[0],
\* and every other invocation is a handler's forward to its next; when it
\* returns, it returns context.output as it then is: the write of the last
\* invoked handler that writes, and absent (undefined) when none writes;
\* context.input is the argument at every invocation and at the end.
C25_ExecuteContext ==
  (last.op = "execute" /\ Len(PostSeq) > 0 /\ last.error = NoError)
    => /\ contexts[Sync].value = ContextObject
       /\ contexts[Sync].input = last.index
       /\ invoked[1] = At(PostSeq, 0)
       /\ \A i \in 2..Len(invoked) : invoked[i] = next[invoked[i - 1]]
       /\ ~Forwards(next, invoked[Len(invoked)])
       /\ output = contexts[Sync].output
       /\ output = LastWrite(invoked, last.index)
       /\ Len(seen) = Len(invoked)
       /\ \A i \in 1..Len(seen) : seen[i] = last.index

\* An execute in which two writers ran, then a handler that does not write:
\* the result is the second writer's.
C25_Witness ==
  /\ last.op = "execute"
  /\ last.error = NoError
  /\ Len(invoked) = 3
  /\ kind[invoked[1]] = Writer
  /\ kind[invoked[2]] = Writer
  /\ kind[invoked[3]] = Base
  /\ output = Suffixed(last.index, invoked[2])

\* C26 (SpecExecute): invoke and invokeAsync of a PipelineHandler, with or
\* without a next, called with an absent context (undefined, and likewise
\* null) fail with the invalid-argument error, invoke by throwing it and
\* invokeAsync by returning a rejected promise, and the next handler is not
\* invoked.
C26_AbsentContextRefused ==
  /\ ( /\ last.op = "invoke"
       /\ kind[last.handler] = Base
       /\ contexts[Sync].value # ContextObject )
       => (last.error = ErrContext /\ invoked = <<last.handler>>)
  /\ ( /\ calls["A"].op = "invokeAsync"
       /\ kind[calls["A"].handler] = Base
       /\ contexts["A"].value # ContextObject )
       => /\ calls["A"].status = Rejected
          /\ calls["A"].error = ErrContext
          /\ Begun(calls["A"]) = <<calls["A"].handler>>

\* The handlers from h along next, h first, for at most fuel links.
RECURSIVE ChainFrom(_, _, _)
ChainFrom(nx, h, fuel) ==
  IF nx[h] \in Handlers /\ fuel > 0
    THEN <<h>> \o ChainFrom(nx, nx[h], fuel - 1)
    ELSE <<h>>

\* C27 (SpecExecute): invoke and invokeAsync called with a context object
\* forward once to next when there is one, and so on along the chain, with
\* the same context; a handler with no next makes no call and returns; the
\* base method writes nothing, so that context.output is the write of the
\* last writing subclass on the chain, and absent when all are plain
\* PipelineHandlers.
C27_BaseForwarding ==
  /\ (last.op = "invoke" /\ contexts[Sync].value = ContextObject)
       => /\ last.error = NoError
          /\ invoked = ChainFrom(next, last.handler, NumHandlers)
          /\ \A i \in 1..Len(seen) : seen[i] = last.index
          /\ contexts[Sync].input = last.index
          /\ contexts[Sync].output = LastWrite(invoked, last.index)
  /\ (calls["A"].op = "invokeAsync" /\ contexts["A"].value = ContextObject)
       => /\ calls["A"].error = NoError
          /\ Begun(calls["A"]) = ChainFrom(next, calls["A"].handler, NumHandlers)
          /\ contexts["A"].input = calls["A"].input
          /\ contexts["A"].output = LastWrite(Begun(calls["A"]), calls["A"].input)

\* invoke on a plain PipelineHandler whose chain is three handlers long, none
\* of which writes.
C27_Witness ==
  /\ last.op = "invoke"
  /\ contexts[Sync].value = ContextObject
  /\ Len(invoked) = 3
  /\ \A i \in 1..Len(invoked) : kind[invoked[i]] = Base
  /\ contexts[Sync].output = Undefined

Reverse(s) ==
  [i \in 1..Len(s) |-> s[Len(s) + 1 - i]]

IsPrefix(s, t) ==
  Len(s) =< Len(t) /\ s = SubSeq(t, 1, Len(s))

\* The asynchronous calls of executeAsync on a plan that is not empty.
ExecutingAsync(c) ==
  calls[c].op = "executeAsync" /\ Len(AsyncSeq) > 0

\* C28 as stated: during executeAsync the handlers' invokeAsync begin in
\* chain order, and a handler's invokeAsync does not begin until the
\* invocation of the handler before it has settled.
C28_BeginsAfterPredecessorSettled ==
  \A c \in Callers :
    ExecutingAsync(c)
      => /\ IsPrefix(Begun(calls[c]), ChainFrom(next, At(AsyncSeq, 0), NumHandlers))
         /\ \A k \in 1..Len(calls[c].events) : \A j \in 1..(k - 1) :
              (calls[c].events[k].e = "begin" /\ calls[c].events[j].e = "begin")
                => \E m \in (j + 1)..(k - 1) :
                     calls[c].events[m] = Settle(calls[c].events[j].h)

\* C28 as amended: during executeAsync the handlers' invokeAsync begin in
\* chain order, each inside the invocation of the handler before it, and the
\* invocations settle in the reverse order: a handler's invocation does not
\* settle until that of the handler after it has settled.
C28_SettlesAfterSuccessor ==
  \A c \in Callers :
    ExecutingAsync(c)
      => /\ Begun(calls[c]) = ChainFrom(next, At(AsyncSeq, 0), NumHandlers)
         /\ IsPrefix(Settled(calls[c]), Reverse(Begun(calls[c])))
         /\ calls[c].awaiting =
              SubSeq(Begun(calls[c]), 1, Len(Begun(calls[c])) - Len(Settled(calls[c])))

\* A chain of three handlers of which the last two have settled and the
\* first is still waiting.
C28_Witness ==
  /\ ExecutingAsync("A")
  /\ Len(Begun(calls["A"])) = 3
  /\ Settled(calls["A"]) = <<Begun(calls["A"])[3], Begun(calls["A"])[2]>>
  /\ calls["A"].status = Pending

\* C29 (SpecExecute): the promise of executeAsync resolves only when the
\* invokeAsync of every handler on the chain from handlers[0] has settled,
\* and with context.output as it is then: the write of the last writing
\* handler on the chain, never an earlier one.
C29_ResolvesAfterChain ==
  \A c \in Callers :
    (ExecutingAsync(c) /\ calls[c].status = Resolved)
      => /\ calls[c].awaiting = <<>>
         /\ Begun(calls[c]) = ChainFrom(next, At(AsyncSeq, 0), NumHandlers)
         /\ Settled(calls[c]) = Reverse(Begun(calls[c]))
         /\ calls[c].result = contexts[c].output
         /\ calls[c].result = LastWrite(Begun(calls[c]), calls[c].input)

\* executeAsync has resolved after a chain of two writers and one handler
\* that does not write, with the second writer's write.
C29_Witness ==
  /\ ExecutingAsync("A")
  /\ calls["A"].status = Resolved
  /\ Len(Settled(calls["A"])) = 3
  /\ kind[Begun(calls["A"])[1]] = Writer
  /\ kind[Begun(calls["A"])[2]] = Writer
  /\ kind[Begun(calls["A"])[3]] = Base
  /\ calls["A"].result = Suffixed(calls["A"].input, Begun(calls["A"])[2])

\* The context executeAsync(input) leaves when no other call is made.
AloneContext(input) ==
  ExecuteAsyncBegin(AsyncSeq, next, kind, input).ctx

\* C30 (SpecExecute): when two executeAsync calls run interleaved on one
\* plan, with no structural call in between, each works on a context of its
\* own, which at every step is what the call alone would have made it:
\* nothing of the other call is written to it; and each call returns what it
\* returns when run alone.
C30_ContextPerCall ==
  \A c \in Callers :
    ExecutingAsync(c)
      => /\ contexts[c] = AloneContext(calls[c].input)
         /\ calls[c].status = Resolved
              => calls[c].result = AloneContext(calls[c].input).output

\* Two calls with different inputs on a plan with a writer: B was made after
\* A, and has resolved, with its own result, while A is still waiting.
C30_Witness ==
  /\ ExecutingAsync("A")
  /\ ExecutingAsync("B")
  /\ calls["A"].input # calls["B"].input
  /\ calls["A"].status = Pending
  /\ Len(calls["A"].awaiting) > 0
  /\ calls["B"].status = Resolved
  /\ calls["B"].result # Undefined
  /\ contexts["A"].output # calls["B"].result

\* What execute(input) does on the plan the asynchronous calls were made on.
SyncRun(input) ==
  Execute(AsyncSeq, next, kind, input)

\* C31 (SpecExecute): on the same plan and input, with handlers whose invoke
\* and invokeAsync do the same work, executeAsync calls invokeAsync on the
\* handlers execute calls invoke on, in the same order, and its promise
\* settles the way execute ends: resolved with the value execute returns, or
\* rejected with the error execute throws.
C31_SyncAsyncAgree ==
  \A c \in Callers :
    calls[c].op = "executeAsync"
      => /\ Begun(calls[c]) = SyncRun(calls[c].input).invoked
         /\ calls[c].error = SyncRun(calls[c].input).error
         /\ calls[c].status # Pending
              => /\ calls[c].status = SettledAs(SyncRun(calls[c].input).error)
                 /\ calls[c].result = SyncRun(calls[c].input).output

\* executeAsync has resolved with a writer's value after a chain of two or
\* more handlers, as execute returns it.
C31_Witness ==
  /\ calls["A"].op = "executeAsync"
  /\ calls["A"].status = Resolved
  /\ Len(Begun(calls["A"])) >= 2
  /\ calls["A"].result # Undefined
  /\ calls["A"].result = SyncRun(calls["A"].input).output

\* C32 (Spec): a successful insertHandlerAt(index, handler) on a plan of N
\* handlers changes no next but that of the handler at index - 1 (when
\* index > 0) and that of the inserted handler (when index < N): inserted at
\* the tail, the handler keeps the next it had, and an insertion at index 0
\* changes the next of no member.
C32_InsertionFrame ==
  Succeeded("insertHandlerAt")
    => /\ \A h \in Handlers :
            next[h] # pre.next[h]
              => \/ last.index > 0 /\ h = At(PreSeq, last.index - 1)
                 \/ last.index < Len(PreSeq) /\ h = last.handler
       /\ last.index = Len(PreSeq) => next[last.handler] = pre.next[last.handler]
       /\ last.index = 0
            => \A h \in Members(PreSeq) : next[h] = pre.next[h]

\* A handler that was a member before, and still has the next it had then, is
\* inserted at the tail of a plan that is not empty, and keeps that next.
C32_Witness ==
  /\ Succeeded("insertHandlerAt")
  /\ last.index = Len(PreSeq)
  /\ Len(PreSeq) > 0
  /\ pre.next[last.handler] \in Handlers
  /\ next[last.handler] = pre.next[last.handler]
  /\ next[At(PreSeq, last.index - 1)] = last.handler

----------------------------------------------------------------------------
\* Properties of plans from which handlers were removed (SpecTracking).

\* Following next from h comes to a handler with no next within fuel links.
RECURSIVE Ends(_, _, _)
Ends(nx, h, fuel) ==
  \/ nx[h] \notin Handlers
  \/ fuel > 0 /\ Ends(nx, nx[h], fuel - 1)

\* No handler is on a cycle of next links, and execute on a plan that is not
\* empty returns.
NoCycle ==
  /\ \A h \in Handlers : Ends(next, h, NumHandlers)
  /\ (last.op = "execute" /\ Len(PostSeq) > 0) => last.error = NoError

\* C33 as stated: from an empty plan and handlers constructed without a
\* next, no sequence of plan operations (insertions at any position,
\* removeHandler, removeHandlerAt, clearHandlers, insertion of a removed
\* handler included) produces a cycle of next links, and execute on such a
\* plan, when not empty, terminates.
C33_NoCycleFromPlanOperations ==
  NoCycle

\* No call so far, the last one included, has put into the plan a handler
\* that had a next or was some handler's next.
NoLinkedHandlerPutIn ==
  ~history.relinked /\ ~PutInLinked

\* C33 as amended: the same, for sequences of plan operations in which every
\* handler inserted is as constructed when it is inserted (it has no next and
\* is no handler's next); inserting a removed handler that still has, or is,
\* a next can close a cycle.
C33_NoCycleUnlessLinkedHandlerInserted ==
  NoLinkedHandlerPutIn => NoCycle

\* execute returns on a plan of two or more handlers from which a handler
\* was removed that still has its next, where nothing linked was inserted.
C33_Witness ==
  /\ last.op = "execute"
  /\ last.error = NoError
  /\ Len(PostSeq) >= 2
  /\ history.removed
  /\ NoLinkedHandlerPutIn
  /\ \E h \in Handlers \ Members(PostSeq) : next[h] \in Handlers

\* C34 (SpecInsert): in a plan built by insertions only out of handlers
\* constructed without a next, the next of every member is absent or a
\* member at a later position, that of the last member is absent, and so the
\* chain execute follows from handlers[0] visits members only, each at most
\* once, in increasing position.
C34_ForwardOnly ==
  /\ \A p \in DOMAIN handlers : \A i \in 1..Len(handlers[p]) :
       \/ next[handlers[p][i]] = Undefined
       \/ \E j \in (i + 1)..Len(handlers[p]) : handlers[p][j] = next[handlers[p][i]]
  /\ \A p \in DOMAIN handlers :
       Len(handlers[p]) > 0 => next[handlers[p][Len(handlers[p])]] = Undefined
  /\ (last.op = "execute" /\ Len(PostSeq) > 0)
       => /\ last.error = NoError
          /\ \A k \in 1..Len(invoked) : invoked[k] \in Members(PostSeq)
          /\ \A k \in 1..(Len(invoked) - 1) :
               IndexOf(PostSeq, invoked[k]) < IndexOf(PostSeq, invoked[k + 1])

\* execute on a plan of three handlers whose first is linked to the third:
\* two handlers are visited, in increasing position.
C34_Witness ==
  /\ last.op = "execute"
  /\ Len(PostSeq) = 3
  /\ next[PostSeq[1]] = PostSeq[3]
  /\ invoked = <<PostSeq[1], PostSeq[3]>>

\* execute has invoked only handlers that are members of the plan.
InvokedAreMembers ==
  \A k \in 1..Len(invoked) : invoked[k] \in Members(PostSeq)

\* C35 as stated: in every state reachable by plan operations from handlers
\* constructed without a next, execute invokes only current members of the
\* plan; after a successful removal of h, execute does not invoke h.
C35_OnlyMembersInvoked ==
  last.op = "execute" => InvokedAreMembers

\* C35 as amended: the same holds, and execute returns, as long as no handler
\* has been taken out of the plan (by removeHandlerAt, removeHandler or
\* clearHandlers); a removed handler is still invoked when the member before
\* it is invoked, whose next it remains.
C35_OnlyMembersInvokedBeforeRemoval ==
  (last.op = "execute" /\ ~history.removed)
    => /\ InvokedAreMembers
       /\ Len(PostSeq) > 0 => last.error = NoError

\* execute on a plan of three handlers from which nothing was removed runs
\* two or more of them.
C35_Witness ==
  /\ last.op = "execute"
  /\ ~history.removed
  /\ Len(PostSeq) = 3
  /\ Len(invoked) >= 2
  /\ InvokedAreMembers

====
